---- MODULE Spec2Model ----
(***************************************************************************)
(* Device negotiation and half-duplex TX/RX scheduling loop of             *)
(* examples/arduino-rx-web/arduino-rx-web.cpp: GGWave_init (negotiate),    *)
(* GGWave_mainLoop (tick), GGWave_deinit (shutdown) and sendData, driving  *)
(* the SDL audio device API and the GGWave modem engine.                   *)
(***************************************************************************)
EXTENDS Integers, Sequences, FiniteSets, TLC

VARIABLES
    g_devIdInp,        \* capture handle, 0 = none
    g_devIdOut,        \* playback handle, 0 = none
    g_obtainedSpecInp, \* obtained capture spec
    g_obtainedSpecOut, \* obtained playback spec
    g_ggWave,          \* the Session (NULL or an engine instance)
    sdl,               \* the audio subsystem's device table, by device id
    tLastNoData,       \* static local of GGWave_mainLoop, NoTime until first reached
    dataInp,           \* size of the static receive buffer, NoSize until first reached
    now,               \* the clock, ms
    heap,              \* number of live engine instances
    tDraining,         \* history: time of the last tick that saw no outbound data
                       \*   with the playback queue still holding a frame or more
    tInsufficient,     \* history: time of the last tick that saw no outbound data
                       \*   and fewer capture bytes than one frame
    last               \* history: what the last operation observed and did

vars == <<g_devIdInp, g_devIdOut, g_obtainedSpecInp, g_obtainedSpecOut, g_ggWave,
          sdl, tLastNoData, dataInp, now, heap, tDraining,
          tInsufficient, last>>

(***************************************************************************)
(* Bounds of the model.                                                    *)
(***************************************************************************)
NumAudioDevices == 3      \* device ids 1..NumAudioDevices (id 1 is the legacy device)
MaxTime == 1000           \* the clock stops advancing here
MaxTxFrames == 2          \* encode calls one sendData can ask for
MaxQueuedOut == 1024      \* playback queue bytes the model lets sendData reach
MaxQueuedInp == 71680     \* capture queue bytes the subsystem may hold
MaxIdleQueued == 2048     \* between ticks the capture callback appends up to this depth

TimeSteps == {500}
CaptureChunks == {2048, 67584}      \* one F32 frame; a backlog of 33 F32 frames
MidTickChunks == {0, 2048, 67584}   \* appended between the depth query and the dequeue
PlaybackChunks == {512}             \* bytes one playback callback takes
WaveformSamples == {256}

NULL == [null |-> TRUE]
NoTime == 0 - 1
NoSize == 0 - 1

Min(a, b) == IF a < b THEN a ELSE b

(***************************************************************************)
(* SDL audio formats (little-endian host) and the engine's sample formats. *)
(***************************************************************************)
AUDIO_U8 == 8
AUDIO_S8 == 32776
AUDIO_U16SYS == 16
AUDIO_S16SYS == 32784
AUDIO_S32SYS == 32800
AUDIO_F32SYS == 33056
UnlistedFormats == {36880}     \* AUDIO_S16MSB: a format the switches do not list

GGWAVE_SAMPLE_FORMAT_UNDEFINED == "UNDEFINED"
GGWAVE_SAMPLE_FORMAT_U8 == "U8"
GGWAVE_SAMPLE_FORMAT_I8 == "I8"
GGWAVE_SAMPLE_FORMAT_U16 == "U16"
GGWAVE_SAMPLE_FORMAT_I16 == "I16"
GGWAVE_SAMPLE_FORMAT_F32 == "F32"

kDefaultSampleRate == 48000
kSamplesPerFrame == 512
kDebounceMs == 500
kOverflowFactor == 32
kPlaybackSamples == 16384
kCaptureSamples == 1024

SampleFormatInp(format) ==
    CASE format = AUDIO_U8     -> GGWAVE_SAMPLE_FORMAT_U8
      [] format = AUDIO_S8     -> GGWAVE_SAMPLE_FORMAT_I8
      [] format = AUDIO_U16SYS -> GGWAVE_SAMPLE_FORMAT_U16
      [] format = AUDIO_S16SYS -> GGWAVE_SAMPLE_FORMAT_I16
      [] format = AUDIO_S32SYS -> GGWAVE_SAMPLE_FORMAT_F32
      [] format = AUDIO_F32SYS -> GGWAVE_SAMPLE_FORMAT_F32
      [] OTHER                 -> GGWAVE_SAMPLE_FORMAT_UNDEFINED

SampleFormatOut_s32undefined(format) ==
    CASE format = AUDIO_U8     -> GGWAVE_SAMPLE_FORMAT_U8
      [] format = AUDIO_S8     -> GGWAVE_SAMPLE_FORMAT_I8
      [] format = AUDIO_U16SYS -> GGWAVE_SAMPLE_FORMAT_U16
      [] format = AUDIO_S16SYS -> GGWAVE_SAMPLE_FORMAT_I16
      [] format = AUDIO_F32SYS -> GGWAVE_SAMPLE_FORMAT_F32
      [] OTHER                 -> GGWAVE_SAMPLE_FORMAT_UNDEFINED

SampleFormatOut(format) ==
    CASE format = AUDIO_U8     -> GGWAVE_SAMPLE_FORMAT_U8
      [] format = AUDIO_S8     -> GGWAVE_SAMPLE_FORMAT_I8
      [] format = AUDIO_U16SYS -> GGWAVE_SAMPLE_FORMAT_U16
      [] format = AUDIO_S16SYS -> GGWAVE_SAMPLE_FORMAT_I16
      [] format = AUDIO_S32SYS -> GGWAVE_SAMPLE_FORMAT_F32
      [] format = AUDIO_F32SYS -> GGWAVE_SAMPLE_FORMAT_F32
      [] OTHER                 -> GGWAVE_SAMPLE_FORMAT_UNDEFINED

(***************************************************************************)
(* The modem engine, as far as the loop uses it.                           *)
(***************************************************************************)
bytesForSampleFormat(fmt) ==
    CASE fmt \in {GGWAVE_SAMPLE_FORMAT_U8, GGWAVE_SAMPLE_FORMAT_I8}   -> 1
      [] fmt \in {GGWAVE_SAMPLE_FORMAT_U16, GGWAVE_SAMPLE_FORMAT_I16} -> 2
      [] fmt = GGWAVE_SAMPLE_FORMAT_F32                               -> 4
      [] OTHER                                                        -> 0

samplesPerFrame(gg) == gg.samplesPerFrame
sampleSizeInp(gg) == bytesForSampleFormat(gg.sampleFormatInp)
sampleSizeOut(gg) == bytesForSampleFormat(gg.sampleFormatOut)
txHasData(gg) == gg.txLeft > 0
\* decode(): a successful call may complete a payload (length > 0), complete
\* nothing (0) or mark a failed reception (-1); a failed call changes nothing
RxOutcomes(gg) == {0, 0 - 1, gg.payloadLength}
decode(gg, ok, rx) == IF ok THEN [gg EXCEPT !.rxDataLength = rx] ELSE gg
\* rxTakeData(): returns the pending length and forgets the payload
rxTakeData(gg) == [n |-> gg.rxDataLength, gg |-> [gg EXCEPT !.rxDataLength = 0]]

\* new GGWave({payloadLength, rateInp, rateOut, kDefaultSampleRate, 512, ..., fmtInp, fmtOut, mode})
NewGGWave(payloadLength, rateInp, rateOut, fmtInp, fmtOut, useDSS) ==
    [payloadLength   |-> payloadLength,
     sampleRateInp   |-> rateInp,
     sampleRateOut   |-> rateOut,
     sampleRate      |-> kDefaultSampleRate,
     samplesPerFrame |-> kSamplesPerFrame,
     sampleFormatInp |-> fmtInp,
     sampleFormatOut |-> fmtOut,
     useDSS          |-> useDSS,
     txLeft          |-> 0,
     rxDataLength    |-> 0]

(***************************************************************************)
(* The audio subsystem: a table of devices; a call on id 0 or on a closed  *)
(* id does nothing.                                                        *)
(***************************************************************************)
DevIds == 1..NumAudioDevices
ClosedDev == [kind |-> "closed", paused |-> TRUE, queued |-> 0]
ZeroSpec == [freq |-> 0, format |-> 0, channels |-> 0, samples |-> 0]

IsOpen(s, id) == id \in DevIds /\ s[id].kind # "closed"

\* SDL_OpenAudioDevice never hands out id 1, which the legacy calls own.
FreeId(s) ==
    IF \E id \in DevIds : id >= 2 /\ s[id].kind = "closed"
    THEN CHOOSE id \in DevIds : /\ id >= 2 /\ s[id].kind = "closed"
                                /\ \A j \in DevIds : (j >= 2 /\ s[j].kind = "closed") => id <= j
    ELSE 0

\* A device opens paused with an empty queue.
SDL_OpenAudioDevice(s, kind, granted) ==
    LET id == IF granted.ok THEN FreeId(s) ELSE 0
    IN [id  |-> id,
        sdl |-> IF id = 0 THEN s
                ELSE [s EXCEPT ![id] = [kind |-> kind, paused |-> TRUE, queued |-> 0]]]

SDL_CloseAudioDevice(s, id) == IF IsOpen(s, id) THEN [s EXCEPT ![id] = ClosedDev] ELSE s
SDL_CloseAudio(s) == SDL_CloseAudioDevice(s, 1)
SDL_PauseAudioDevice(s, id, pauseOn) ==
    IF IsOpen(s, id) THEN [s EXCEPT ![id].paused = pauseOn] ELSE s
SDL_GetQueuedAudioSize(s, id) == IF IsOpen(s, id) THEN s[id].queued ELSE 0
SDL_ClearQueuedAudio(s, id) == IF IsOpen(s, id) THEN [s EXCEPT ![id].queued = 0] ELSE s
SDL_QueueAudio(s, id, len) ==
    IF IsOpen(s, id) /\ s[id].kind = "playback"
    THEN [s EXCEPT ![id].queued = @ + len] ELSE s
\* returns the bytes moved and the table
SDL_DequeueAudio(s, id, len) ==
    LET n == IF IsOpen(s, id) /\ s[id].kind = "capture" THEN Min(len, s[id].queued) ELSE 0
    IN [n |-> n, sdl |-> IF n = 0 THEN s ELSE [s EXCEPT ![id].queued = @ - n]]
\* the capture callback appends to an open, resumed capture device
CaptureAppend(s, id, len) ==
    IF IsOpen(s, id) /\ s[id].kind = "capture" /\ ~s[id].paused /\ s[id].queued + len <= MaxQueuedInp
    THEN [s EXCEPT ![id].queued = @ + len] ELSE s

Call(fn, dev, arg) == [fn |-> fn, dev |-> dev, arg |-> arg]

\* what an operation observed and did; -1 = not observed
NoObs == [op |-> "none", ret |-> FALSE, calls |-> <<>>, hasData |-> FALSE,
          qOut |-> -1, nHave |-> -1, nNeed |-> -1, elapsed |-> -1,
          got |-> -1, afterDequeue |-> -1, decodeLen |-> -1, nBytes |-> -1,
          decoded |-> FALSE, rxN |-> 0, emitted |-> FALSE]

Init ==
    /\ g_devIdInp = 0
    /\ g_devIdOut = 0
    /\ g_obtainedSpecInp = ZeroSpec
    /\ g_obtainedSpecOut = ZeroSpec
    /\ g_ggWave = NULL
    /\ sdl = [id \in DevIds |-> ClosedDev]
    /\ tLastNoData = NoTime
    /\ dataInp = NoSize
    /\ now = 0
    /\ heap = 0
    /\ tDraining = NoTime
    /\ tInsufficient = NoTime
    /\ last = NoObs

(***************************************************************************)
(* GGWave_init: negotiate.                                                 *)
(***************************************************************************)
DeviceSelectors == {0}
PayloadLengths == {16}
SampleRateOffsets == {0}
UseDSSValues == {TRUE}

\* what the hardware may answer to an open call
NoGrant == [ok |-> FALSE, format |-> 0, channels |-> 0, samples |-> 0]
PlaybackGrants ==
    { NoGrant,
      [ok |-> TRUE, format |-> AUDIO_S16SYS, channels |-> 1, samples |-> kPlaybackSamples],
      [ok |-> TRUE, format |-> AUDIO_S16SYS, channels |-> 1, samples |-> 8192],
      [ok |-> TRUE, format |-> AUDIO_F32SYS, channels |-> 1, samples |-> kPlaybackSamples],
      [ok |-> TRUE, format |-> AUDIO_S16SYS, channels |-> 2, samples |-> kPlaybackSamples] }
CaptureGrants ==
    { NoGrant } \cup
    { [ok |-> TRUE, format |-> f, channels |-> 1, samples |-> kCaptureSamples] :
        f \in {AUDIO_F32SYS} \cup UnlistedFormats }
\* capture hardware that grants the requested float32 or falls back to 16 bit
CaptureGrantsWidths ==
    { [ok |-> TRUE, format |-> f, channels |-> 1, samples |-> kCaptureSamples] :
        f \in {AUDIO_F32SYS, AUDIO_S16SYS} }

Obtained(req, granted) ==
    [freq |-> req.freq, format |-> granted.format,
     channels |-> granted.channels, samples |-> granted.samples]

BothOpen(devInp, devOut) == devInp # 0 /\ devOut # 0
NeitherOpen(devInp, devOut) == devInp = 0 /\ devOut = 0

PlaybackSpec(sampleRateOffset) ==
    [freq |-> kDefaultSampleRate + sampleRateOffset, format |-> AUDIO_S16SYS,
     channels |-> 1, samples |-> kPlaybackSamples]

CaptureSpec(specOut, sampleRateOffset) ==
    [specOut EXCEPT !.freq = kDefaultSampleRate + sampleRateOffset,
                    !.format = AUDIO_F32SYS, !.samples = kCaptureSamples]

PlaybackMismatch(obtained, requested) ==
    \/ obtained.format # requested.format
    \/ obtained.channels # requested.channels
    \/ obtained.samples # requested.samples

\* the playback side of negotiate; aborted = the early "return false"
InitPlayback(devOut, specOut, s, sampleRateOffset, granted) ==
    IF devOut # 0
    THEN [devOut |-> devOut, specOut |-> specOut, sdl |-> s,
          opened |-> FALSE, aborted |-> FALSE, calls |-> <<>>]
    ELSE LET playbackSpec == PlaybackSpec(sampleRateOffset)
             o == SDL_OpenAudioDevice(s, "playback", granted)
             obtained == IF o.id = 0 THEN ZeroSpec ELSE Obtained(playbackSpec, granted)
             opencall == Call("SDL_OpenAudioDevice(playback)", o.id, 0)
         IN IF o.id = 0
            THEN [devOut |-> 0, specOut |-> obtained, sdl |-> o.sdl,
                  opened |-> FALSE, aborted |-> FALSE, calls |-> <<opencall>>]
            ELSE IF PlaybackMismatch(obtained, playbackSpec)
            THEN [devOut |-> 0, specOut |-> obtained, sdl |-> SDL_CloseAudio(o.sdl),
                  opened |-> FALSE, aborted |-> TRUE,
                  calls |-> <<opencall, Call("SDL_CloseAudio", 1, 0)>>]
            ELSE [devOut |-> o.id, specOut |-> obtained, sdl |-> o.sdl,
                  opened |-> TRUE, aborted |-> FALSE, calls |-> <<opencall>>]

\* the capture side of negotiate
InitCapture(devInp, specInp, specOut, s, sampleRateOffset, granted) ==
    IF devInp # 0
    THEN [devInp |-> devInp, specInp |-> specInp, sdl |-> s, opened |-> FALSE, calls |-> <<>>]
    ELSE LET captureSpec == CaptureSpec(specOut, sampleRateOffset)
             o == SDL_OpenAudioDevice(s, "capture", granted)
             obtained == IF o.id = 0 THEN ZeroSpec ELSE Obtained(captureSpec, granted)
         IN [devInp |-> o.id, specInp |-> obtained, sdl |-> o.sdl, opened |-> o.id # 0,
             calls |-> <<Call("SDL_OpenAudioDevice(capture)", o.id, 0)>>]

Reinit_both(openedOut, openedInp) == openedOut /\ openedInp
Reinit(openedOut, openedInp) == openedOut \/ openedInp

\* the Session after "if (reinit) { delete; new }"
InitSession(gg, live, reinit, payloadLength, specInp, specOut, useDSS) ==
    IF ~reinit
    THEN [gg |-> gg, heap |-> live, calls |-> <<>>]
    ELSE [gg |-> NewGGWave(payloadLength, specInp.freq, specOut.freq,
                           SampleFormatInp(specInp.format), SampleFormatOut(specOut.format),
                           useDSS),
          heap |-> (IF gg # NULL THEN live - 1 ELSE live) + 1,
          calls |-> (IF gg # NULL THEN <<Call("delete GGWave", 0, 0)>> ELSE <<>>)
                    \o <<Call("new GGWave", 0, 0)>>]

InitAlreadyOpen_zeroed ==
    [ret |-> FALSE, devOut |-> g_devIdOut, devInp |-> g_devIdInp,
     specOut |-> ZeroSpec, specInp |-> ZeroSpec,
     sdl |-> sdl, gg |-> g_ggWave, heap |-> heap, calls |-> <<>>]
\* "if (g_devIdInp && g_devIdOut) return false;": nothing is touched
InitAlreadyOpen ==
    [ret |-> FALSE, devOut |-> g_devIdOut, devInp |-> g_devIdInp,
     specOut |-> g_obtainedSpecOut, specInp |-> g_obtainedSpecInp,
     sdl |-> sdl, gg |-> g_ggWave, heap |-> heap, calls |-> <<>>]

InitResult(payloadLength, sampleRateOffset, useDSS, sdlInitOk, grantOut, grantInp) ==
    IF BothOpen(g_devIdInp, g_devIdOut) THEN InitAlreadyOpen
    ELSE IF NeitherOpen(g_devIdInp, g_devIdOut) /\ ~sdlInitOk
    THEN \* SDL_Init failed: "return (1)"
         [InitAlreadyOpen EXCEPT !.ret = TRUE, !.calls = <<Call("SDL_Init", 0, 0)>>]
    ELSE
    LET pre == IF NeitherOpen(g_devIdInp, g_devIdOut)
               THEN <<Call("SDL_Init", 0, 0)>> ELSE <<>>
        p == InitPlayback(g_devIdOut, g_obtainedSpecOut, sdl, sampleRateOffset, grantOut)
    IN IF p.aborted
       THEN [ret |-> FALSE, devOut |-> p.devOut, devInp |-> g_devIdInp,
             specOut |-> p.specOut, specInp |-> g_obtainedSpecInp,
             sdl |-> p.sdl, gg |-> g_ggWave, heap |-> heap, calls |-> pre \o p.calls]
       ELSE
       LET c == InitCapture(g_devIdInp, g_obtainedSpecInp, p.specOut, p.sdl,
                            sampleRateOffset, grantInp)
           n == InitSession(g_ggWave, heap, Reinit(p.opened, c.opened), payloadLength,
                            c.specInp, p.specOut, useDSS)
       IN [ret |-> TRUE, devOut |-> p.devOut, devInp |-> c.devInp,
           specOut |-> p.specOut, specInp |-> c.specInp,
           sdl |-> c.sdl, gg |-> n.gg, heap |-> n.heap,
           calls |-> pre \o p.calls \o c.calls \o n.calls]

Negotiate(captureGrants) ==
    \E playbackId \in DeviceSelectors, captureId \in DeviceSelectors,
       payloadLength \in PayloadLengths, sampleRateOffset \in SampleRateOffsets,
       useDSS \in UseDSSValues,
       sdlInitOk \in (IF NeitherOpen(g_devIdInp, g_devIdOut) THEN BOOLEAN ELSE {TRUE}) :
    \* the hardware answers only the open calls that are made
    \E grantOut \in (IF g_devIdOut = 0 /\ sdlInitOk THEN PlaybackGrants ELSE {NoGrant}) :
    \E grantInp \in (IF /\ g_devIdInp = 0 /\ sdlInitOk
                         /\ ~InitPlayback(g_devIdOut, g_obtainedSpecOut, sdl,
                                          sampleRateOffset, grantOut).aborted
                      THEN captureGrants ELSE {NoGrant}) :
        LET r == InitResult(payloadLength, sampleRateOffset, useDSS, sdlInitOk,
                            grantOut, grantInp)
        IN /\ g_devIdOut' = r.devOut
           /\ g_devIdInp' = r.devInp
           /\ g_obtainedSpecOut' = r.specOut
           /\ g_obtainedSpecInp' = r.specInp
           /\ sdl' = r.sdl
           /\ g_ggWave' = r.gg
           /\ heap' = r.heap
           /\ last' = [NoObs EXCEPT !.op = "init", !.ret = r.ret, !.calls = r.calls]
           /\ UNCHANGED <<tLastNoData, dataInp, now, tDraining, tInsufficient>>

GGWave_init == Negotiate(CaptureGrants)
GGWave_init_widths == Negotiate(CaptureGrantsWidths)

(***************************************************************************)
(* GGWave_deinit: shutdown.                                                *)
(***************************************************************************)
DeinitDevices_captureOnly(s, devInp, devOut) ==
    SDL_CloseAudioDevice(SDL_PauseAudioDevice(s, devInp, TRUE), devInp)
\* pause and close capture, then pause and close playback
DeinitDevices(s, devInp, devOut) ==
    LET s1 == SDL_PauseAudioDevice(s, devInp, TRUE)
        s2 == SDL_CloseAudioDevice(s1, devInp)
        s3 == SDL_PauseAudioDevice(s2, devOut, TRUE)
    IN SDL_CloseAudioDevice(s3, devOut)

GGWave_deinit ==
    IF NeitherOpen(g_devIdInp, g_devIdOut)
    THEN /\ last' = [NoObs EXCEPT !.op = "deinit", !.ret = FALSE]
         /\ UNCHANGED <<g_devIdInp, g_devIdOut, g_obtainedSpecInp, g_obtainedSpecOut,
                        g_ggWave, sdl, heap, tLastNoData, dataInp, now,
                        tDraining, tInsufficient>>
    ELSE LET s4 == DeinitDevices(sdl, g_devIdInp, g_devIdOut)
         IN /\ g_ggWave' = NULL
            /\ heap' = IF g_ggWave # NULL THEN heap - 1 ELSE heap
            /\ sdl' = s4
            /\ g_devIdInp' = 0
            /\ g_devIdOut' = 0
            /\ last' = [NoObs EXCEPT !.op = "deinit", !.ret = TRUE,
                          !.calls = <<Call("delete GGWave", 0, 0),
                                      Call("SDL_PauseAudioDevice", g_devIdInp, 1),
                                      Call("SDL_CloseAudioDevice", g_devIdInp, 0),
                                      Call("SDL_PauseAudioDevice", g_devIdOut, 1),
                                      Call("SDL_CloseAudioDevice", g_devIdOut, 0)>>]
            /\ UNCHANGED <<g_obtainedSpecInp, g_obtainedSpecOut, tLastNoData, dataInp, now,
                           tDraining, tInsufficient>>

(***************************************************************************)
(* GGWave_mainLoop: one tick.                                              *)
(***************************************************************************)
ListenPlaybackPauseOn_paused == TRUE
ListenPlaybackPauseOn == FALSE   \* SDL_PauseAudioDevice(g_devIdOut, SDL_FALSE)
ListenCapturePauseOn == FALSE    \* SDL_PauseAudioDevice(g_devIdInp, SDL_FALSE)
TxPlaybackPauseOn_resumed == FALSE
TxPlaybackPauseOn == TRUE        \* SDL_PauseAudioDevice(g_devIdOut, SDL_TRUE)
TxCapturePauseOn == TRUE         \* SDL_PauseAudioDevice(g_devIdInp, SDL_TRUE)

FrameBytesOut(gg) == samplesPerFrame(gg) * sampleSizeOut(gg)
FrameBytesInp(gg) == samplesPerFrame(gg) * sampleSizeInp(gg)

\* drain pacing: the playback queue holds less than one frame of output
PlaybackDrained_always(queued, gg) == TRUE
PlaybackDrained(queued, gg) == queued < FrameBytesOut(gg)
\* silence debounce and queue depth
CanDecode_nodebounce(elapsed, nHave, nNeed) == nHave >= nNeed
CanDecode(elapsed, nHave, nNeed) == elapsed > kDebounceMs /\ nHave >= nNeed
\* overflow guard, on the depth sampled before the dequeue
Overflow_late(nHave, nNeed) == nHave > 2 * kOverflowFactor * nNeed
Overflow(nHave, nNeed) == nHave > kOverflowFactor * nNeed

\* "if (n > 0)": the payload is printed
Emits_nonzero(n) == n # 0
Emits(n) == n > 0

B(flag) == IF flag THEN 1 ELSE 0

\* the branch "txHasData() == false"
\*   mid: bytes the capture callback appends between the depth query and the dequeue
\*   decodeOk, rx: decode's answer, and what a successful decode left to take
TickListen(mid, decodeOk, rx) ==
    LET gg    == g_ggWave
        s1    == SDL_PauseAudioDevice(sdl, g_devIdOut, ListenPlaybackPauseOn)
        tLast == IF tLastNoData = NoTime THEN now ELSE tLastNoData
        tNow  == now
        qOut  == SDL_GetQueuedAudioSize(s1, g_devIdOut)
        c1    == <<Call("SDL_PauseAudioDevice", g_devIdOut, B(ListenPlaybackPauseOn)),
                   Call("SDL_GetQueuedAudioSize", g_devIdOut, 0)>>
        obs   == [NoObs EXCEPT !.op = "mainLoop", !.ret = TRUE, !.qOut = qOut]
    IN IF PlaybackDrained(qOut, gg)
       THEN LET s2      == SDL_PauseAudioDevice(s1, g_devIdInp, ListenCapturePauseOn)
                nHave   == SDL_GetQueuedAudioSize(s2, g_devIdInp)
                nNeed   == FrameBytesInp(gg)
                elapsed == tNow - tLast
                c2      == c1 \o <<Call("SDL_PauseAudioDevice", g_devIdInp, B(ListenCapturePauseOn)),
                                   Call("SDL_GetQueuedAudioSize", g_devIdInp, 0)>>
                obs2    == [obs EXCEPT !.nHave = nHave, !.nNeed = nNeed, !.elapsed = elapsed]
            IN IF CanDecode(elapsed, nHave, nNeed)
               THEN \* "static std::vector<uint8_t> dataInp(nNeed)" is sized by the first
                    \* tick that gets here and keeps that size.  A dequeue of more
                    \* bytes than it holds writes past its end: the tick either goes
                    \* on as below, with decode's answer arbitrary, or the program
                    \* stops (no further step).
                    LET size == IF dataInp = NoSize THEN nNeed ELSE dataInp
                        s3   == CaptureAppend(s2, g_devIdInp, mid)
                        d    == SDL_DequeueAudio(s3, g_devIdInp, nNeed)
                        gg1  == decode(gg, decodeOk, rx)
                        t    == IF decodeOk THEN rxTakeData(gg1) ELSE [n |-> 0, gg |-> gg1]
                        emit == decodeOk /\ Emits(t.n)
                        over == Overflow(nHave, nNeed)
                        s4   == IF over THEN SDL_ClearQueuedAudio(d.sdl, g_devIdInp) ELSE d.sdl
                    IN [sdl |-> s4, tLastNoData |-> tLast, dataInp |-> size, gg |-> t.gg,
                        obs |-> [obs2 EXCEPT
                                   !.got = d.n,
                                   !.afterDequeue = SDL_GetQueuedAudioSize(d.sdl, g_devIdInp),
                                   !.decodeLen = size,
                                   !.decoded = decodeOk,
                                   !.rxN = t.n,
                                   !.emitted = emit,
                                   !.calls = c2 \o <<Call("SDL_DequeueAudio", g_devIdInp, nNeed),
                                                     Call("decode", 0, size)>>
                                             \o (IF decodeOk THEN <<Call("rxTakeData", 0, 0)>> ELSE <<>>)
                                             \o (IF emit THEN <<Call("printf(Received)", 0, t.n)>> ELSE <<>>)
                                             \o (IF over THEN <<Call("SDL_ClearQueuedAudio", g_devIdInp, 0)>>
                                                 ELSE <<>>)]]
               ELSE [sdl |-> SDL_ClearQueuedAudio(s2, g_devIdInp), tLastNoData |-> tLast,
                     dataInp |-> dataInp, gg |-> gg,
                     obs |-> [obs2 EXCEPT
                                !.calls = c2 \o <<Call("SDL_ClearQueuedAudio", g_devIdInp, 0)>>]]
       ELSE [sdl |-> s1, tLastNoData |-> tNow, dataInp |-> dataInp, gg |-> gg,
             obs |-> [obs EXCEPT !.calls = c1]]

\* the branch "txHasData()": nSamples is the length of the waveform encode() produces
TickTransmit(nSamples) ==
    LET gg     == g_ggWave
        s1     == SDL_PauseAudioDevice(sdl, g_devIdOut, TxPlaybackPauseOn)
        s2     == SDL_PauseAudioDevice(s1, g_devIdInp, TxCapturePauseOn)
        nBytes == nSamples * sampleSizeOut(gg)
        s3     == SDL_QueueAudio(s2, g_devIdOut, nBytes)
    IN [sdl |-> s3, gg |-> [gg EXCEPT !.txLeft = @ - 1],
        obs |-> [NoObs EXCEPT !.op = "mainLoop", !.ret = TRUE, !.hasData = TRUE,
                              !.qOut = SDL_GetQueuedAudioSize(sdl, g_devIdOut),
                              !.nBytes = nBytes,
                              !.calls = <<Call("SDL_PauseAudioDevice", g_devIdOut, B(TxPlaybackPauseOn)),
                                          Call("SDL_PauseAudioDevice", g_devIdInp, B(TxCapturePauseOn)),
                                          Call("encode", 0, 0),
                                          Call("SDL_QueueAudio", g_devIdOut, nBytes)>>]]

\* "if (g_devIdInp == 0 && g_devIdOut == 0) return false;"
MainLoopNoDevice_active == TRUE
MainLoopNoDevice == FALSE

ReachesDequeue == TickListen(0, FALSE, 0).obs.decodeLen >= 0

MainLoop(history) ==
    IF NeitherOpen(g_devIdInp, g_devIdOut)
    THEN /\ last' = [NoObs EXCEPT !.op = "mainLoop", !.ret = MainLoopNoDevice]
         /\ UNCHANGED <<g_devIdInp, g_devIdOut, g_obtainedSpecInp, g_obtainedSpecOut,
                        g_ggWave, sdl, heap, tLastNoData, dataInp, now,
                        tDraining, tInsufficient>>
    ELSE /\ g_ggWave # NULL      \* g_ggWave->txHasData() on a null Session ends the program
         /\ IF ~txHasData(g_ggWave)
            THEN \* the callback's append, decode's answer and rxTakeData's count are
                 \* drawn only in a tick that reaches the dequeue
                 \E mid \in (IF ReachesDequeue THEN MidTickChunks ELSE {0}),
                    decodeOk \in (IF ReachesDequeue THEN BOOLEAN ELSE {FALSE}) :
                 \E rx \in (IF decodeOk THEN RxOutcomes(g_ggWave) ELSE {0}) :
                   LET r == TickListen(mid, decodeOk, rx)
                   IN /\ sdl' = r.sdl
                      /\ g_ggWave' = r.gg
                      /\ tLastNoData' = r.tLastNoData
                      /\ dataInp' = r.dataInp
                      /\ last' = r.obs
                      /\ tDraining' =
                           IF history /\ r.obs.qOut >= FrameBytesOut(g_ggWave)
                           THEN now ELSE tDraining
                      /\ tInsufficient' =
                           IF history /\ r.obs.nHave >= 0 /\ r.obs.nHave < r.obs.nNeed
                           THEN now ELSE tInsufficient
                      /\ UNCHANGED <<g_devIdInp, g_devIdOut, g_obtainedSpecInp,
                                     g_obtainedSpecOut, heap, now>>
            ELSE \E nSamples \in WaveformSamples :
                   LET r == TickTransmit(nSamples)
                   IN /\ sdl' = r.sdl
                      /\ g_ggWave' = r.gg
                      /\ last' = r.obs
                      /\ UNCHANGED <<g_devIdInp, g_devIdOut, g_obtainedSpecInp,
                                     g_obtainedSpecOut, heap, tLastNoData, dataInp, now,
                                     tDraining, tInsufficient>>

GGWave_mainLoop == MainLoop(FALSE)
\* the same tick, also keeping the debounce history (tDraining, tInsufficient)
GGWave_mainLoop_history == MainLoop(TRUE)

(***************************************************************************)
(* sendData: hands a message to the Session for transmission.              *)
(***************************************************************************)
MaxWaveformBytes(gg) ==
    sampleSizeOut(gg) * (CHOOSE n \in WaveformSamples : \A m \in WaveformSamples : m <= n)

sendData ==
    \E frames \in 1..MaxTxFrames :
        /\ g_ggWave # NULL
        /\ SDL_GetQueuedAudioSize(sdl, g_devIdOut) + frames * MaxWaveformBytes(g_ggWave) <= MaxQueuedOut
        /\ g_ggWave' = [g_ggWave EXCEPT !.txLeft = frames]
        /\ last' = [NoObs EXCEPT !.op = "sendData"]
        /\ UNCHANGED <<g_devIdInp, g_devIdOut, g_obtainedSpecInp, g_obtainedSpecOut, sdl,
                       heap, tLastNoData, dataInp, now, tDraining, tInsufficient>>

(***************************************************************************)
(* The audio subsystem and the clock, running beside the loop.             *)
(***************************************************************************)
AudioCapture ==
    \E id \in DevIds, len \in CaptureChunks :
        /\ IsOpen(sdl, id) /\ sdl[id].queued <= MaxIdleQueued
        /\ CaptureAppend(sdl, id, len) # sdl
        /\ sdl' = CaptureAppend(sdl, id, len)
        /\ last' = [NoObs EXCEPT !.op = "audio"]
        /\ UNCHANGED <<g_devIdInp, g_devIdOut, g_obtainedSpecInp, g_obtainedSpecOut, g_ggWave,
                       heap, tLastNoData, dataInp, now, tDraining, tInsufficient>>

AudioPlayback ==
    \E id \in DevIds, len \in PlaybackChunks :
        /\ IsOpen(sdl, id) /\ sdl[id].kind = "playback"
        /\ ~sdl[id].paused /\ sdl[id].queued > 0
        /\ sdl' = [sdl EXCEPT ![id].queued = @ - Min(@, len)]
        /\ last' = [NoObs EXCEPT !.op = "audio"]
        /\ UNCHANGED <<g_devIdInp, g_devIdOut, g_obtainedSpecInp, g_obtainedSpecOut, g_ggWave,
                       heap, tLastNoData, dataInp, now, tDraining, tInsufficient>>

ClockAdvance ==
    \E dt \in TimeSteps :
        /\ now + dt <= MaxTime
        /\ now' = now + dt
        /\ last' = [NoObs EXCEPT !.op = "clock"]
        /\ UNCHANGED <<g_devIdInp, g_devIdOut, g_obtainedSpecInp, g_obtainedSpecOut, g_ggWave,
                       sdl, heap, tLastNoData, dataInp, tDraining, tInsufficient>>

Next ==
    \/ GGWave_init
    \/ GGWave_mainLoop
    \/ GGWave_deinit
    \/ sendData
    \/ AudioCapture
    \/ AudioPlayback
    \/ ClockAdvance

Spec == Init /\ [][Next]_vars

NextHistory ==
    \/ GGWave_init
    \/ GGWave_mainLoop_history
    \/ GGWave_deinit
    \/ sendData
    \/ AudioCapture
    \/ AudioPlayback
    \/ ClockAdvance

SpecHistory == Init /\ [][NextHistory]_vars

(***************************************************************************)
(* The running loop: main() calls GGWave_mainLoop every millisecond and     *)
(* never shuts down, the audio subsystem keeps playing a resumed playback  *)
(* device, the clock keeps advancing, and messages are submitted only      *)
(* while the clock can still advance.                                      *)
(***************************************************************************)
sendData_early == (\E dt \in TimeSteps : now + dt <= MaxTime) /\ sendData

NextLive ==
    \/ GGWave_init
    \/ GGWave_mainLoop
    \/ sendData_early
    \/ AudioCapture
    \/ AudioPlayback
    \/ ClockAdvance

SpecLive ==
    /\ Init /\ [][NextLive]_vars
    /\ WF_vars(GGWave_mainLoop)
    /\ WF_vars(AudioPlayback)
    /\ WF_vars(ClockAdvance)

(***************************************************************************)
(* The same operations with capture hardware of two sample widths.         *)
(***************************************************************************)
NextWidths ==
    \/ GGWave_init_widths
    \/ GGWave_mainLoop
    \/ GGWave_deinit
    \/ sendData
    \/ AudioCapture
    \/ AudioPlayback
    \/ ClockAdvance

SpecWidths == Init /\ [][NextWidths]_vars

(***************************************************************************)
(* The format switches alone, applied to any pair of obtained formats.     *)
(***************************************************************************)
\* SDL's ten formats of both byte orders, 0 (a zeroed spec) and values next to them
HardwareFormats ==
    {0, 7, 8, 9, 16, 32, 4112, 32776, 32784, 32800, 33055, 33056, 36880, 36896, 37152, 65535}

FormatInit ==
    \E fi \in HardwareFormats, fo \in HardwareFormats :
        /\ g_devIdInp = 0
        /\ g_devIdOut = 0
        /\ g_obtainedSpecInp = [ZeroSpec EXCEPT !.format = fi]
        /\ g_obtainedSpecOut = [ZeroSpec EXCEPT !.format = fo]
        /\ g_ggWave = NULL
        /\ sdl = [id \in DevIds |-> ClosedDev]
        /\ tLastNoData = NoTime
        /\ dataInp = NoSize
        /\ now = 0
        /\ heap = 0
        /\ tDraining = NoTime
        /\ tInsufficient = NoTime
        /\ last = NoObs

\* the two switches and the construction of the Session from their results
AdaptFormats ==
    \E payloadLength \in PayloadLengths, useDSS \in UseDSSValues :
        LET n == InitSession(g_ggWave, heap, TRUE, payloadLength,
                             g_obtainedSpecInp, g_obtainedSpecOut, useDSS)
        IN /\ g_ggWave = NULL
           /\ g_ggWave' = n.gg
           /\ heap' = n.heap
           /\ last' = [NoObs EXCEPT !.op = "formats", !.ret = TRUE, !.calls = n.calls]
           /\ UNCHANGED <<g_devIdInp, g_devIdOut, g_obtainedSpecInp, g_obtainedSpecOut, sdl,
                          tLastNoData, dataInp, now, tDraining, tInsufficient>>

SpecFormat == FormatInit /\ [][AdaptFormats]_vars

(***************************************************************************)
(* Properties.                                                             *)
(***************************************************************************)
Resumed(id) == IsOpen(sdl, id) /\ ~sdl[id].paused
Queued(id) == SDL_GetQueuedAudioSize(sdl, id)
CallsOf(obs, fn) == {i \in 1..Len(obs.calls) : obs.calls[i].fn = fn}
Ticked == last.op = "mainLoop" /\ last.ret
TxTick == Ticked /\ last.hasData
ListenTick == Ticked /\ ~last.hasData
DecodeTick == ListenTick /\ last.decodeLen >= 0
\* init opened a playback device (the open call returned an id)
OpenedPlayback(obs) ==
    \E i \in CallsOf(obs, "SDL_OpenAudioDevice(playback)") : obs.calls[i].dev # 0
OpenFailed(obs) ==
    \E i \in CallsOf(obs, "SDL_OpenAudioDevice(playback)")
             \cup CallsOf(obs, "SDL_OpenAudioDevice(capture)") : obs.calls[i].dev = 0
Differs(obtained) ==
    \/ obtained.format # AUDIO_S16SYS
    \/ obtained.channels # 1
    \/ obtained.samples # kPlaybackSamples
\* every open playback stream of the audio subsystem is the one the handle names
NoOrphanPlayback(s, devOut) == \A id \in DevIds : s[id].kind = "playback" => id = devOut

\* C1 (as claimed): at the end of every tick, playback and capture are never both
\* resumed.
C1_NeverBothResumed ==
    last.op = "mainLoop" => ~(Resumed(g_devIdOut) /\ Resumed(g_devIdInp))

\* C1 (amended): at the end of a tick, playback and capture are both resumed only
\* after a tick that saw no outbound data and found the playback queue below one
\* frame of output bytes; a tick with outbound data never ends with both resumed.
C1_BothResumedOnlyWhenDrained ==
    (last.op = "mainLoop" /\ Resumed(g_devIdOut) /\ Resumed(g_devIdInp))
        => /\ ~last.hasData
           /\ last.qOut >= 0
           /\ last.qOut < FrameBytesOut(g_ggWave)

C1_Witness ==
    /\ ListenTick /\ Resumed(g_devIdOut) /\ Resumed(g_devIdInp)
    /\ last.qOut > 0 /\ Queued(g_devIdOut) > 0

\* C2 (as claimed): a tick with outbound data ends with playback resumed, capture
\* paused and exactly one waveform enqueued.
C2_TxPlaybackResumed ==
    TxTick => /\ Resumed(g_devIdOut)
              /\ ~Resumed(g_devIdInp)
              /\ Cardinality(CallsOf(last, "SDL_QueueAudio")) = 1

\* C2 (amended): a tick with outbound data ends with playback paused, capture
\* paused, and exactly one encoded waveform enqueued to the playback queue.
C2_TxBothPausedOneEnqueue ==
    TxTick => /\ ~Resumed(g_devIdOut)
              /\ ~Resumed(g_devIdInp)
              /\ Cardinality(CallsOf(last, "encode")) = 1
              /\ Cardinality(CallsOf(last, "SDL_QueueAudio")) = 1
              /\ \A i \in CallsOf(last, "SDL_QueueAudio") :
                    last.calls[i].dev = g_devIdOut /\ last.calls[i].arg = last.nBytes
              /\ IsOpen(sdl, g_devIdOut) => Queued(g_devIdOut) = last.qOut + last.nBytes

C2_Witness ==
    /\ TxTick /\ IsOpen(sdl, g_devIdOut) /\ IsOpen(sdl, g_devIdInp)
    /\ last.qOut > 0 /\ Queued(g_devIdOut) > last.qOut

\* C3 (as claimed): a tick without outbound data leaves playback paused and
\* capture resumed.
C3_ListenPlaybackPaused ==
    ListenTick => /\ IsOpen(sdl, g_devIdOut) => sdl[g_devIdOut].paused
                  /\ IsOpen(sdl, g_devIdInp) => ~sdl[g_devIdInp].paused

\* C3 (amended): a tick without outbound data leaves playback resumed; capture is
\* resumed if the playback queue holds less than one frame of output bytes, and
\* otherwise no call is made on the capture device.
C3_ListenPlaybackResumed ==
    ListenTick =>
        /\ IsOpen(sdl, g_devIdOut) => ~sdl[g_devIdOut].paused
        /\ (last.qOut < FrameBytesOut(g_ggWave) /\ IsOpen(sdl, g_devIdInp))
              => ~sdl[g_devIdInp].paused
        /\ last.qOut >= FrameBytesOut(g_ggWave)
              => \A i \in 1..Len(last.calls) : last.calls[i].dev = g_devIdOut

C3_Witness ==
    /\ ListenTick /\ Resumed(g_devIdOut)
    /\ IsOpen(sdl, g_devIdInp) /\ sdl[g_devIdInp].paused
    /\ last.qOut >= FrameBytesOut(g_ggWave)

\* C4: when negotiate newly opens playback and the obtained format, channel count
\* or frame size differs from the request, it returns failure, the playback device
\* it opened is closed and its handle cleared (no open playback stream is left
\* without a handle), no capture open is attempted, and the capture handle and the
\* Session are unchanged.
C4_MismatchReleasesPlayback ==
    [][ (last'.op = "init" /\ OpenedPlayback(last') /\ Differs(g_obtainedSpecOut'))
          => /\ last'.ret = FALSE
             /\ g_devIdOut' = 0
             /\ NoOrphanPlayback(sdl', g_devIdOut')
             /\ CallsOf(last', "SDL_OpenAudioDevice(capture)") = {}
             /\ g_devIdInp' = g_devIdInp
             /\ g_ggWave' = g_ggWave ]_vars

\* C5: when a device open call fails during negotiate, negotiate returns false.
C5_OpenFailureReturnsFalse ==
    (last.op = "init" /\ OpenFailed(last)) => last.ret = FALSE

\* C6: no Session exists whose input or output sample format is undefined.
C6_NoUndefinedFormatSession ==
    g_ggWave # NULL =>
        /\ g_ggWave.sampleFormatInp # GGWAVE_SAMPLE_FORMAT_UNDEFINED
        /\ g_ggWave.sampleFormatOut # GGWAVE_SAMPLE_FORMAT_UNDEFINED

\* C7 (as claimed): a decode is never attempted before 500 ms have elapsed since
\* the last tick that saw no outbound data and too few capture bytes for a frame.
C7_DebounceSinceInsufficient ==
    (DecodeTick /\ tInsufficient # NoTime) => now - tInsufficient >= kDebounceMs

\* C7 (amended): a decode is never attempted before 500 ms have elapsed since the
\* last tick that saw no outbound data while the playback queue still held one
\* frame of output bytes or more.
C7_DebounceSinceDraining ==
    (DecodeTick /\ tDraining # NoTime) => now - tDraining > kDebounceMs

C7_Witness ==
    DecodeTick /\ tDraining # NoTime /\ last.got > 0

\* C8 (as claimed): in a tick that dequeues a frame, if the capture queue holds
\* more than 32 frames of input bytes right after the dequeue, the capture queue
\* is empty right after the tick.
C8_OverflowAfterDequeue ==
    (DecodeTick /\ last.got > 0 /\ last.afterDequeue > kOverflowFactor * last.nNeed)
        => Queued(g_devIdInp) = 0

\* C8 (amended): in a tick that dequeues a frame, if the capture queue depth the
\* tick sampled before the dequeue exceeds 32 frames of input bytes, the capture
\* queue is empty right after the tick.
C8_OverflowBeforeDequeue ==
    (DecodeTick /\ last.nHave > kOverflowFactor * last.nNeed)
        => Queued(g_devIdInp) = 0

C8_Witness ==
    /\ DecodeTick /\ last.nNeed > 0 /\ last.got = last.nNeed
    /\ last.nHave > kOverflowFactor * last.nNeed
    /\ Queued(g_devIdInp) = 0

\* C9: negotiate with both devices already open makes no device call and leaves
\* both handles, both obtained specs and the Session unchanged.
C9_NegotiateIdempotent ==
    [][ (last'.op = "init" /\ g_devIdInp # 0 /\ g_devIdOut # 0)
          => /\ last'.calls = <<>>
             /\ sdl' = sdl
             /\ g_devIdInp' = g_devIdInp /\ g_devIdOut' = g_devIdOut
             /\ g_obtainedSpecInp' = g_obtainedSpecInp
             /\ g_obtainedSpecOut' = g_obtainedSpecOut
             /\ g_ggWave' = g_ggWave /\ heap' = heap ]_vars

C9_Witness ==
    /\ last.op = "init" /\ ~last.ret /\ last.calls = <<>>
    /\ g_devIdInp # 0 /\ g_devIdOut # 0 /\ g_ggWave # NULL

\* C10: negotiate replaces the Session exactly when a side was newly opened in
\* that call and stays open (the call was not aborted by a playback mismatch); the
\* previous Session is destroyed before the new one is constructed; in every other
\* negotiate call the Session is left unchanged.
C10_SessionReplacedIffOpened ==
    [][ last'.op = "init" =>
          LET opened   == \/ (g_devIdOut = 0 /\ g_devIdOut' # 0)
                          \/ (g_devIdInp = 0 /\ g_devIdInp' # 0)
              news     == CallsOf(last', "new GGWave")
              deletes  == CallsOf(last', "delete GGWave")
          IN /\ (news # {}) <=> opened
             /\ Cardinality(news) <= 1
             /\ news = {} => (g_ggWave' = g_ggWave /\ deletes = {})
             /\ news # {} =>
                  /\ g_ggWave' # NULL /\ g_ggWave'.txLeft = 0
                  /\ (g_ggWave # NULL) <=> (deletes # {})
                  /\ \A d \in deletes, n \in news : d < n
             /\ heap' = IF g_ggWave' = NULL THEN 0 ELSE 1 ]_vars

C10_Witness ==
    /\ last.op = "init" /\ last.ret
    /\ CallsOf(last, "delete GGWave") # {} /\ CallsOf(last, "new GGWave") # {}
    /\ g_devIdInp # 0 /\ g_devIdOut # 0

\* C11: shutdown with at least one device open closes both devices, clears both
\* handles and discards the Session in one step, and a tick that follows it is a
\* no-op returning false; shutdown with no device open returns false and changes
\* nothing.
C11_ShutdownInvalidatesAll ==
    [][ /\ last'.op = "deinit" =>
            IF g_devIdInp = 0 /\ g_devIdOut = 0
            THEN /\ last'.ret = FALSE /\ last'.calls = <<>>
                 /\ UNCHANGED <<g_devIdInp, g_devIdOut, g_obtainedSpecInp, g_obtainedSpecOut,
                                g_ggWave, sdl, heap, tLastNoData, dataInp, now>>
            ELSE /\ last'.ret = TRUE
                 /\ ~IsOpen(sdl', g_devIdInp) /\ ~IsOpen(sdl', g_devIdOut)
                 /\ g_devIdInp' = 0 /\ g_devIdOut' = 0
                 /\ g_ggWave' = NULL /\ heap' = 0
        /\ (last.op = "deinit" /\ last.ret /\ last'.op = "mainLoop") =>
            /\ last'.ret = FALSE /\ last'.calls = <<>>
            /\ UNCHANGED <<g_devIdInp, g_devIdOut, g_ggWave, sdl, heap, tLastNoData, dataInp>>
      ]_vars

C11_Witness ==
    /\ last.op = "deinit" /\ last.ret
    /\ \E i \in CallsOf(last, "SDL_CloseAudioDevice") : last.calls[i].dev >= 2
    /\ \E i, j \in CallsOf(last, "SDL_CloseAudioDevice") :
          i # j /\ last.calls[i].dev # 0 /\ last.calls[j].dev # 0
    /\ g_ggWave = NULL /\ g_devIdInp = 0 /\ g_devIdOut = 0

\* C12: a tick prints a received payload only if its decode call succeeded and
\* rxTakeData returned a count above zero, it prints it once, the count printed
\* is the length the decode completed, and after every tick the Session holds
\* no payload left to take, so a later tick prints only what a later decode
\* completes.
C12_EmitOncePerCompletedPayload ==
    /\ g_ggWave # NULL => g_ggWave.rxDataLength = 0
    /\ last.op = "mainLoop" =>
          LET prints == CallsOf(last, "printf(Received)")
              takes  == CallsOf(last, "rxTakeData")
          IN /\ Cardinality(prints) <= 1
             /\ (prints # {}) <=> (last.decoded /\ last.rxN > 0)
             /\ (takes # {}) <=> last.decoded
             /\ \A i \in prints : /\ last.calls[i].arg = g_ggWave.payloadLength
                                   /\ \E j \in takes : j < i
             /\ last.emitted <=> (prints # {})

C12_Witness ==
    /\ DecodeTick /\ last.decoded /\ last.rxN > 0 /\ last.emitted
    /\ last.got = last.nNeed /\ last.nNeed > 0

\* C13: a tick executed while neither device is open returns false, makes no
\* device or Session call and leaves all state unchanged.
C13_NoDeviceTickIsNoOp ==
    [][ (last'.op = "mainLoop" /\ g_devIdInp = 0 /\ g_devIdOut = 0)
          => /\ last'.ret = FALSE
             /\ last'.calls = <<>>
             /\ UNCHANGED <<g_devIdInp, g_devIdOut, g_obtainedSpecInp, g_obtainedSpecOut,
                            g_ggWave, sdl, heap, tLastNoData, dataInp, now>> ]_vars

C13_Witness ==
    /\ last.op = "mainLoop" /\ ~last.ret /\ last.calls = <<>>
    /\ g_devIdInp = 0 /\ g_devIdOut = 0
    /\ tLastNoData # NoTime

\* the mapping the Format Adapter is specified to compute
ExpectedFormat(format) ==
    IF format = 8 THEN "U8"
    ELSE IF format = 32776 THEN "I8"
    ELSE IF format = 16 THEN "U16"
    ELSE IF format = 32784 THEN "I16"
    ELSE IF format \in {32800, 33056} THEN "F32"
    ELSE "UNDEFINED"

\* C14: the format mapping is total and the same on both sides: unsigned 8-bit,
\* signed 8-bit, unsigned 16-bit and signed 16-bit each map to their own engine
\* format, signed 32-bit and float32 both map to the engine's float32, and every
\* other hardware format value maps to undefined.
C14_FormatMappingTotal ==
    last.op = "formats" =>
        /\ g_ggWave.sampleFormatInp = ExpectedFormat(g_obtainedSpecInp.format)
        /\ g_ggWave.sampleFormatOut = ExpectedFormat(g_obtainedSpecOut.format)
        /\ g_obtainedSpecInp.format = g_obtainedSpecOut.format
              => g_ggWave.sampleFormatInp = g_ggWave.sampleFormatOut
        /\ \A f \in HardwareFormats : SampleFormatInp(f) = SampleFormatOut(f)

C14_Witness ==
    /\ last.op = "formats"
    /\ g_obtainedSpecInp.format = AUDIO_S32SYS /\ g_ggWave.sampleFormatInp = GGWAVE_SAMPLE_FORMAT_F32
    /\ g_obtainedSpecOut.format = 36880 /\ g_ggWave.sampleFormatOut = GGWAVE_SAMPLE_FORMAT_UNDEFINED

C17_GuardOnRemainingBytes ==
    (DecodeTick /\ last.got > 0) =>
        /\ (CallsOf(last, "SDL_ClearQueuedAudio") # {})
              <=> (last.afterDequeue > kOverflowFactor * last.nNeed)
        /\ last.afterDequeue <= kOverflowFactor * last.nNeed
              => Queued(g_devIdInp) = last.afterDequeue

\* C17 (amended): in a tick that dequeues a frame, the capture backlog is cleared
\* if and only if the queue depth sampled before the dequeue exceeds 32 frames of
\* input bytes; otherwise every byte left by the dequeue is kept.
C17_GuardOnSampledBytes ==
    DecodeTick =>
        /\ (CallsOf(last, "SDL_ClearQueuedAudio") # {})
              <=> (last.nHave > kOverflowFactor * last.nNeed)
        /\ last.nHave <= kOverflowFactor * last.nNeed
              => Queued(g_devIdInp) = last.afterDequeue
        /\ Cardinality(CallsOf(last, "SDL_ClearQueuedAudio")) <= 1

\* exactly 32 frames remain after the dequeue, and the backlog is cleared
C17_Witness ==
    /\ DecodeTick /\ last.nNeed > 0 /\ last.got = last.nNeed
    /\ last.afterDequeue = kOverflowFactor * last.nNeed
    /\ CallsOf(last, "SDL_ClearQueuedAudio") # {}
    /\ Queued(g_devIdInp) = 0

\* C18: with both devices open and ticks running, once the Session stops having
\* outbound data and no new message is submitted, every waveform byte that was
\* enqueued is played out (the playback queue becomes empty, so it falls below
\* one frame) and capture is resumed.
C18_HandOverCompletes ==
    (g_devIdInp # 0 /\ g_devIdOut # 0 /\ Queued(g_devIdOut) > 0)
        ~> (/\ g_ggWave # NULL /\ ~txHasData(g_ggWave)
            /\ Queued(g_devIdOut) = 0
            /\ Resumed(g_devIdOut)
            /\ Resumed(g_devIdInp))

\* a burst of at least one frame has been enqueued and the Session has no more
C18_Witness ==
    /\ TxTick /\ g_devIdInp # 0 /\ g_devIdOut # 0
    /\ ~txHasData(g_ggWave)
    /\ Queued(g_devIdOut) >= FrameBytesOut(g_ggWave)
    /\ ~Resumed(g_devIdOut) /\ ~Resumed(g_devIdInp)

\* C19: every decode tick dequeues exactly one frame of the current Session's
\* input bytes, that count does not exceed the capacity of the receive buffer it
\* is written into, and the byte length handed to decode equals the number of
\* bytes dequeued.
C19_DequeueFitsReceiveBuffer ==
    (DecodeTick /\ sampleSizeInp(g_ggWave) > 0) =>
        /\ last.nNeed = FrameBytesInp(g_ggWave)
        /\ last.got = last.nNeed
        /\ last.nNeed <= dataInp
        /\ last.decodeLen = last.got

\* C20: in every reachable state, if a device handle is open then a Session
\* exists, so a tick that passes the no-device guard has a Session to call.
C20_OpenHandleHasSession ==
    /\ (g_devIdInp # 0 \/ g_devIdOut # 0) => (g_ggWave # NULL /\ heap = 1)
    /\ Ticked => g_ggWave # NULL

\* one side failed to open: a tick runs with a single handle and a Session
C20_Witness ==
    /\ Ticked /\ g_devIdInp = 0 /\ g_devIdOut # 0 /\ g_ggWave # NULL
    /\ \E id \in DevIds : id # g_devIdOut /\ IsOpen(sdl, id)

====
